---- MODULE Spec2Model ----
(***************************************************************************)
(* AT_CellularDevice (features/cellular/framework/AT/AT_CellularDevice.cpp) *)
(* as a state machine: the ATHandler pool, the four reference-counted      *)
(* subsystem slots, the context list, the destructor, and the device-wide  *)
(* AT exchanges.                                                           *)
(*                                                                         *)
(* Objects live on a heap: ATH, SUB and CTX map the addresses of the live  *)
(* ATHandler, subsystem and AT_CellularContext objects to their fields.    *)
(* A pointer is an address, Null is the null pointer.  operator new hands  *)
(* out the lowest address that is not live; the classes do not share       *)
(* addresses (a pointer is only ever compared with one of its own class).  *)
(***************************************************************************)
EXTENDS Integers, Sequences, FiniteSets, Bags, TLC

----------------------------------------------------------------------------
(* Bounds of the exploration *)

\* references callers may hold at once on top of the device's own:
\* open() calls not yet closed, handles acquired and not yet released,
\* contexts created (a created context's handle reference is never given
\* back, so each creation counts for good)
MaxRefs == 3

\* callers that run an open_<s>() or an AT operation at the same time
NThreads == 2

\* how far around each bucket boundary the durations of set_power_save_mode go
MaxSlack == 2

----------------------------------------------------------------------------
(* Program constants and input sets *)

DEFAULT_AT_TIMEOUT == 1000

MAX_SIM_RESPONSE_LENGTH == 16

Null == 0

\* the transports callers pass; FileHandles[1] is the one the device is built on
FileHandles == {1, 2, 3}
DeviceFh == 1
FhArgs == FileHandles \cup {Null}

Timeouts == {DEFAULT_AT_TIMEOUT, 2 * DEFAULT_AT_TIMEOUT}

Slots == {"network", "sms", "power", "information"}

Threads == 1..NThreads

VARIABLES
    _fh,               \* CellularDevice::_fh, the device's file handle
    _atHandlers,       \* the pool: addresses in list order, head first
    ATH,               \* heap of ATHandler objects: address -> [fh, ref, timeout]
    _at,               \* the device's own handle
    _default_timeout,
    _slot,             \* _network, _sms, _power, _information: pointer per slot
    _ref_count,        \* _network_ref_count, ... per slot
    SUB,               \* heap of subsystem objects: <<kind, address>> -> [at]
    _context_list,     \* addresses of the contexts in list order, head first
    CTX,               \* heap of AT_CellularContext objects: address -> [at]
    held,              \* bag of the handle pointers callers got from get_at_handler
    ub,                \* TRUE once the code deleted or used an object that is not live
    pc,                \* position of the device: alive, inside ~AT_CellularDevice, dead
    run,               \* the calls made since the last change of operation (history)
    thr,               \* per concurrent caller of open_<s>: [pc, slot, fh, at, ret]
    at_lock,           \* the caller that holds the lock of *_at, 0 when it is free
    at_last_err,       \* the error recorded in *_at
    call,              \* per caller of a device-wide AT operation: its position and locals
    sim                \* the modem's SIM: any, locked, ready

devvars == <<_fh, _atHandlers, ATH, _at, _default_timeout, _slot,
             _ref_count, SUB, _context_list, CTX, held, ub, pc, run>>

atvars == <<at_lock, at_last_err, call, sim>>

vars == <<devvars, thr, atvars>>

----------------------------------------------------------------------------
(* Heap helpers *)

\* operator new: the lowest address not live
NewAddr(live) == CHOOSE a \in 1..(Cardinality(live) + 1) :
                    a \notin live /\ \A b \in 1..(a - 1) : b \in live

\* operator new for an ATHandler: the address numbered like its file handle
\* when that one is not live, the lowest free address above the file handles'
\* otherwise
NewHandleAddr(live, fh) ==
    IF fh \notin live THEN fh
    ELSE CHOOSE a \in 1..(Cardinality(live) + Cardinality(FileHandles) + 1) :
            /\ a \notin live /\ a \notin FileHandles
            /\ \A b \in 1..(a - 1) : b \in live \/ b \in FileHandles

Extend(f, k, v) == [x \in DOMAIN f \cup {k} |-> IF x = k THEN v ELSE f[x]]

Remove(f, k) == [x \in DOMAIN f \ {k} |-> f[x]]

Min(S) == CHOOSE m \in S : \A n \in S : m <= n

RemoveAt(s, i) == SubSeq(s, 1, i - 1) \o SubSeq(s, i + 1, Len(s))

Range(s) == {s[i] : i \in 1..Len(s)}

Empty == [x \in {} |-> 0]

----------------------------------------------------------------------------
(* ATHandler: the protocol engine's handle object (its reference count) *)

ATHandler_new(fileHandle, timeout) ==
    [fh |-> fileHandle, ref |-> 1, timeout |-> timeout]

inc_ref_count(h) == [h EXCEPT !.ref = @ + 1]

dec_ref_count(h) == [h EXCEPT !.ref = @ - 1]

----------------------------------------------------------------------------
(* The handle pool *)

\* positions of the pool entries bound to file handle fh
PoolHits(list, ath, fh) == {i \in 1..Len(list) : ath[list[i]].fh = fh}

\* get_at_handler without the search of the pool
get_at_handler_MutNoSearch(list, ath, fileHandle, timeout) ==
    LET fh == IF fileHandle = Null THEN _fh ELSE fileHandle
        a == NewHandleAddr(DOMAIN ath, fh)
    IN  [list |-> <<a>> \o list,
         ath |-> Extend(ath, a, ATHandler_new(fh, timeout)),
         ret |-> a, made |-> TRUE]

\* get_at_handler on the pool (list, ath): the pool afterwards, the handle
\* returned, and whether a handle was constructed
get_at_handler(list, ath, fileHandle, timeout) ==
    LET fh == IF fileHandle = Null THEN _fh ELSE fileHandle
        hits == PoolHits(list, ath, fh)
    IN  IF hits # {}
        THEN LET a == list[Min(hits)]
             IN  [list |-> list,
                  ath |-> [ath EXCEPT ![a] = inc_ref_count(@)],
                  ret |-> a, made |-> FALSE]
        ELSE LET a == NewHandleAddr(DOMAIN ath, fh)
             IN  [list |-> <<a>> \o list,
                  ath |-> Extend(ath, a, ATHandler_new(fh, timeout)),
                  ret |-> a, made |-> TRUE]

\* release_at_handler that only decrements the count
release_at_handler_MutNoDelete(list, ath, at_handler) ==
    IF at_handler = Null \/ at_handler \notin DOMAIN ath
    THEN [list |-> list, ath |-> ath, freed |-> FALSE, ub |-> FALSE]
    ELSE [list |-> list, ath |-> [ath EXCEPT ![at_handler] = dec_ref_count(@)],
          freed |-> FALSE, ub |-> FALSE]

\* release_at_handler that deletes the handle whatever its count
release_at_handler_MutDeleteAlways(list, ath, at_handler) ==
    IF at_handler = Null
    THEN [list |-> list, ath |-> ath, freed |-> FALSE, ub |-> FALSE]
    ELSE IF at_handler \notin DOMAIN ath
    THEN [list |-> list, ath |-> ath, freed |-> FALSE, ub |-> TRUE]
    ELSE LET at == {i \in 1..Len(list) : list[i] = at_handler}
         IN  [list |-> RemoveAt(list, Min(at)),
              ath |-> Remove(ath, at_handler),
              freed |-> TRUE, ub |-> FALSE]

\* release_at_handler on the pool (list, ath): the pool afterwards, whether
\* the handle was deleted, and whether the call touched an object not live
release_at_handler(list, ath, at_handler) ==
    IF at_handler = Null
    THEN [list |-> list, ath |-> ath, freed |-> FALSE, ub |-> FALSE]
    ELSE IF at_handler \notin DOMAIN ath
    THEN [list |-> list, ath |-> ath, freed |-> FALSE, ub |-> TRUE]
    ELSE LET ath1 == [ath EXCEPT ![at_handler] = dec_ref_count(@)]
             at == {i \in 1..Len(list) : list[i] = at_handler}
         IN  IF ath1[at_handler].ref = 0 /\ at # {}
             THEN [list |-> RemoveAt(list, Min(at)),
                   ath |-> Remove(ath1, at_handler),
                   freed |-> TRUE, ub |-> FALSE]
             ELSE [list |-> list, ath |-> ath1, freed |-> FALSE, ub |-> FALSE]

----------------------------------------------------------------------------
(* What the calls made so far amount to (history, read by the properties) *)

NoRun == [kind |-> "none"]

IdleThread == [pc |-> "idle"]

RefOf(ath, a) == IF a \in DOMAIN ath THEN ath[a].ref ELSE 0

ResolveFh(fileHandle) == IF fileHandle = Null THEN _fh ELSE fileHandle

\* every reference held on a handle beyond the device's own, and every open
\* beyond a slot's first
Outstanding ==
    LET Extra(s) == IF _ref_count[s] > 1 THEN _ref_count[s] - 1 ELSE 0
        Refs[i \in 0..Len(_atHandlers)] ==
            IF i = 0 THEN 0 ELSE ATH[_atHandlers[i]].ref + Refs[i - 1]
    IN  (Refs[Len(_atHandlers)] - 1)
        + Extra("network") + Extra("sms") + Extra("power") + Extra("information")

Alive == pc = "alive"

----------------------------------------------------------------------------
(* AT_CellularDevice::AT_CellularDevice *)

\* the device after its constructor, no call made yet
InitDevice ==
    /\ _fh = DeviceFh
    /\ _default_timeout = DEFAULT_AT_TIMEOUT
    /\ LET r == get_at_handler(<<>>, Empty, DeviceFh, DEFAULT_AT_TIMEOUT)
       IN  /\ _atHandlers = r.list
           /\ ATH = r.ath
           /\ _at = r.ret
    /\ _slot = [s \in Slots |-> Null]
    /\ _ref_count = [s \in Slots |-> 0]
    /\ SUB = Empty
    /\ _context_list = <<>>
    /\ CTX = Empty
    /\ held = EmptyBag
    /\ ub = FALSE
    /\ pc = "alive"
    /\ run = NoRun
    /\ thr = [t \in Threads |-> IdleThread]
    /\ at_lock = 0
    /\ at_last_err = "OK"
    /\ call = [t \in Threads |-> IdleThread]

\* the modem answers anything
Init == InitDevice /\ sim = "any"

\* the modem has a SIM that is locked or unlocked
InitPin == InitDevice /\ sim \in {"locked", "ready"}

----------------------------------------------------------------------------
(* Callers of get_at_handler / release_at_handler *)

CallGet(fileHandle) ==
    /\ Alive
    /\ Outstanding < MaxRefs
    /\ LET fh == ResolveFh(fileHandle)
           r == get_at_handler(_atHandlers, ATH, fileHandle, _default_timeout)
           m == IF r.made THEN 1 ELSE 0
       IN  /\ _atHandlers' = r.list
           /\ ATH' = r.ath
           /\ held' = held (+) SetToBag({r.ret})
           /\ run' = IF run.kind = "pool" /\ run.fh = fh /\ run.rels = 0
                     THEN [run EXCEPT !.gets = @ + 1, !.made = @ + m,
                                      !.arg = fileHandle, !.ret = r.ret]
                     ELSE [kind |-> "pool", fh |-> fh, gets |-> 1, rels |-> 0,
                           arg |-> fileHandle, ret |-> r.ret,
                           pre |-> PoolHits(_atHandlers, ATH, fh) # {},
                           made |-> m, freed |-> 0]
    /\ UNCHANGED <<_fh, _at, _default_timeout, _slot, _ref_count,
                   SUB, _context_list, CTX, ub, pc>>

CallRelease(at_handler) ==
    /\ Alive
    /\ BagIn(at_handler, held)
    /\ LET fh == IF at_handler \in DOMAIN ATH THEN ATH[at_handler].fh ELSE Null
           r == release_at_handler(_atHandlers, ATH, at_handler)
           f == IF r.freed THEN 1 ELSE 0
       IN  /\ _atHandlers' = r.list
           /\ ATH' = r.ath
           /\ ub' = (ub \/ r.ub)
           /\ held' = held (-) SetToBag({at_handler})
           /\ run' = IF run.kind = "pool" /\ run.fh = fh /\ run.rels < run.gets
                     THEN [run EXCEPT !.rels = @ + 1, !.freed = @ + f]
                     ELSE NoRun
    /\ UNCHANGED <<_fh, _at, _default_timeout, _slot, _ref_count,
                   SUB, _context_list, CTX, pc>>

----------------------------------------------------------------------------
(* The subsystem slots: open_network / open_sms / open_power /             *)
(* open_information and their close_ counterparts are the same code on     *)
(* four slots                                                              *)

\* open_<s>(fh) without the test of the slot: a subsystem is constructed on
\* every call
open_subsystem_MutAlwaysNew(s, fileHandle) ==
    LET r == get_at_handler(_atHandlers, ATH, fileHandle, _default_timeout)
        n == NewAddr({p[2] : p \in {q \in DOMAIN SUB : q[1] = s}})
    IN  [slot |-> [_slot EXCEPT ![s] = n],
         cnt |-> [_ref_count EXCEPT ![s] = @ + 1],
         sub |-> Extend(SUB, <<s, n>>, [at |-> r.ret]),
         list |-> r.list,
         ath |-> r.ath,
         ret |-> n]

\* open_<s>(fh) on the device state: the state afterwards and the pointer returned
open_subsystem(s, fileHandle) ==
    LET r == get_at_handler(_atHandlers, ATH, fileHandle, _default_timeout)
        n == NewAddr({p[2] : p \in {q \in DOMAIN SUB : q[1] = s}})
        wasEmpty == _slot[s] = Null
        slot1 == IF wasEmpty THEN [_slot EXCEPT ![s] = n] ELSE _slot
    IN  [slot |-> slot1,
         cnt |-> IF slot1[s] # Null THEN [_ref_count EXCEPT ![s] = @ + 1] ELSE _ref_count,
         sub |-> IF wasEmpty THEN Extend(SUB, <<s, n>>, [at |-> r.ret]) ELSE SUB,
         list |-> IF wasEmpty THEN r.list ELSE _atHandlers,
         ath |-> IF wasEmpty THEN r.ath ELSE ATH,
         ret |-> slot1[s]]

\* close_<s>() that decrements the count of an empty slot too
close_subsystem_MutNoNullTest(s, st) ==
    LET cnt1 == [st.cnt EXCEPT ![s] = @ - 1]
    IN  IF cnt1[s] # 0 \/ st.slot[s] = Null THEN [st EXCEPT !.cnt = cnt1]
        ELSE LET p == <<s, st.slot[s]>>
                 r == release_at_handler(st.list, st.ath, st.sub[p].at)
             IN  [slot |-> [st.slot EXCEPT ![s] = Null],
                  cnt |-> cnt1,
                  sub |-> Remove(st.sub, p),
                  list |-> r.list,
                  ath |-> r.ath,
                  ub |-> st.ub \/ r.ub]

\* close_<s>() on the state st = [slot, cnt, sub, list, ath, ub]
close_subsystem(s, st) ==
    IF st.slot[s] = Null THEN st
    ELSE LET cnt1 == [st.cnt EXCEPT ![s] = @ - 1]
         IN  IF cnt1[s] # 0 THEN [st EXCEPT !.cnt = cnt1]
             ELSE LET p == <<s, st.slot[s]>>
                      live == p \in DOMAIN st.sub
                      atHandler == IF live THEN st.sub[p].at ELSE Null
                      r == release_at_handler(st.list, st.ath, atHandler)
                  IN  [slot |-> [st.slot EXCEPT ![s] = Null],
                       cnt |-> cnt1,
                       sub |-> Remove(st.sub, p),
                       list |-> r.list,
                       ath |-> r.ath,
                       ub |-> st.ub \/ r.ub \/ ~live]

DevState == [slot |-> _slot, cnt |-> _ref_count, sub |-> SUB,
             list |-> _atHandlers, ath |-> ATH, ub |-> ub]

Open(s, fileHandle) ==
    /\ Alive
    /\ Outstanding < MaxRefs
    /\ LET r == open_subsystem(s, fileHandle)
           at == r.sub[<<s, r.ret>>].at
       IN  /\ _slot' = r.slot
           /\ _ref_count' = r.cnt
           /\ SUB' = r.sub
           /\ _atHandlers' = r.list
           /\ ATH' = r.ath
           /\ run' = IF run.kind = "slot" /\ run.slot = s /\ run.closes = 0
                     THEN [run EXCEPT !.opens = @ + 1,
                                      !.same = @ /\ r.ret = run.inst]
                     ELSE [kind |-> "slot", slot |-> s, opens |-> 1, closes |-> 0,
                           empty0 |-> _slot[s] = Null, inst |-> r.ret, same |-> TRUE,
                           at |-> at, pre |-> RefOf(ATH, at)]
    /\ UNCHANGED <<_fh, _at, _default_timeout, _context_list, CTX,
                   held, ub, pc>>

Close(s) ==
    /\ Alive
    /\ LET r == close_subsystem(s, DevState)
       IN  /\ _slot' = r.slot
           /\ _ref_count' = r.cnt
           /\ SUB' = r.sub
           /\ _atHandlers' = r.list
           /\ ATH' = r.ath
           /\ ub' = r.ub
           /\ run' = IF run.kind = "slot" /\ run.slot = s /\ run.closes <= run.opens
                     THEN [run EXCEPT !.closes = @ + 1]
                     ELSE NoRun
    /\ UNCHANGED <<_fh, _at, _default_timeout, _context_list, CTX,
                   held, pc>>

open_network(fh) == Open("network", fh)
open_sms(fh) == Open("sms", fh)
open_power(fh) == Open("power", fh)
open_information(fh) == Open("information", fh)

close_network == Close("network")
close_sms == Close("sms")
close_power == Close("power")
close_information == Close("information")

----------------------------------------------------------------------------
(* The context list *)

\* create_context that links the new context at the head of the list
create_context_MutPushFront(fileHandle) ==
    LET r == get_at_handler(_atHandlers, ATH, fileHandle, _default_timeout)
        ctx == NewAddr(DOMAIN CTX)
    IN  [clist |-> <<ctx>> \o _context_list,
         cheap |-> Extend(CTX, ctx, [at |-> r.ret]),
         list |-> r.list, ath |-> r.ath, ret |-> ctx]

\* create_context(fh, apn) on the device state
create_context(fileHandle) ==
    LET r == get_at_handler(_atHandlers, ATH, fileHandle, _default_timeout)
        ctx == NewAddr(DOMAIN CTX)
    IN  [clist |-> Append(_context_list, ctx),
         cheap |-> Extend(CTX, ctx, [at |-> r.ret]),
         list |-> r.list, ath |-> r.ath, ret |-> ctx]

\* delete_context(context) on the device state: the list walk splices the
\* node that is context out (the nodes of a list are distinct objects), then
\* the object is deleted
delete_context(context) ==
    [clist |-> SelectSeq(_context_list, LAMBDA c : c # context),
     cheap |-> Remove(CTX, context),
     list |-> _atHandlers, ath |-> ATH,
     ub |-> context # Null /\ context \notin DOMAIN CTX]

CallCreate(fileHandle) ==
    /\ Alive
    /\ Outstanding < MaxRefs
    /\ LET r == create_context(fileHandle)
           at == r.cheap[r.ret].at
       IN  /\ _context_list' = r.clist
           /\ CTX' = r.cheap
           /\ _atHandlers' = r.list
           /\ ATH' = r.ath
           /\ run' = [kind |-> "ctx", op |-> "create", ctx |-> r.ret,
                      before |-> _context_list, at |-> at, pre |-> RefOf(ATH, at)]
    /\ UNCHANGED <<_fh, _at, _default_timeout, _slot, _ref_count,
                   SUB, held, ub, pc>>

CallDelete(context) ==
    /\ Alive
    /\ LET r == delete_context(context)
       IN  /\ _context_list' = r.clist
           /\ CTX' = r.cheap
           /\ _atHandlers' = r.list
           /\ ATH' = r.ath
           /\ ub' = (ub \/ r.ub)
           /\ run' = IF run.kind = "ctx" /\ run.op = "create" /\ run.ctx = context
                     THEN [kind |-> "ctx", op |-> "roundtrip", ctx |-> context,
                           mid |-> _context_list, before |-> run.before,
                           at |-> run.at, pre |-> run.pre]
                     ELSE [kind |-> "ctx", op |-> "delete", ctx |-> context,
                           mid |-> _context_list]
    /\ UNCHANGED <<_fh, _at, _default_timeout, _slot, _ref_count,
                   SUB, held, pc>>

----------------------------------------------------------------------------
(* Device-wide settings *)

\* set_timeout that sets the device's default only
set_timeout_MutDefaultOnly(list, ath, timeout) == ath

\* set_timeout(timeout): the handles of the pool afterwards
set_timeout(list, ath, timeout) ==
    [a \in DOMAIN ath |-> IF a \in Range(list)
                          THEN [ath[a] EXCEPT !.timeout = timeout]
                          ELSE ath[a]]

CallSetTimeout(timeout) ==
    /\ Alive
    /\ _default_timeout' = timeout
    /\ ATH' = set_timeout(_atHandlers, ATH, timeout)
    /\ run' = NoRun
    /\ UNCHANGED <<_fh, _atHandlers, _at, _slot, _ref_count, SUB,
                   _context_list, CTX, held, ub, pc>>

----------------------------------------------------------------------------
(* AT_CellularDevice::~AT_CellularDevice, in the order of its statements *)

\* the destructor without the forcing of the reference counts
dtor_counts_MutNoForce ==
    /\ Alive
    /\ pc' = "close_network"
    /\ run' = [kind |-> "destroy", subs |-> Cardinality(DOMAIN SUB),
               ctxs |-> Cardinality(DOMAIN CTX), handles |-> Cardinality(DOMAIN ATH)]
    /\ UNCHANGED <<_fh, _atHandlers, ATH, _at, _default_timeout,
                   _slot, _ref_count, SUB, _context_list, CTX, held, ub>>

\* the four reference counts are forced to 1
dtor_counts ==
    /\ Alive
    /\ _ref_count' = [s \in Slots |-> 1]
    /\ pc' = "close_network"
    /\ run' = [kind |-> "destroy", subs |-> Cardinality(DOMAIN SUB),
               ctxs |-> Cardinality(DOMAIN CTX), handles |-> Cardinality(DOMAIN ATH)]
    /\ UNCHANGED <<_fh, _atHandlers, ATH, _at, _default_timeout,
                   _slot, SUB, _context_list, CTX, held, ub>>

dtor_close(s, next) ==
    /\ pc = "close_" \o s
    /\ LET r == close_subsystem(s, DevState)
       IN  /\ _slot' = r.slot
           /\ _ref_count' = r.cnt
           /\ SUB' = r.sub
           /\ _atHandlers' = r.list
           /\ ATH' = r.ath
           /\ ub' = r.ub
    /\ pc' = next
    /\ UNCHANGED <<_fh, _at, _default_timeout, _context_list, CTX,
                   held, run>>

\* the loop over _context_list: every node is deleted; the member itself is
\* left as it was
dtor_contexts ==
    /\ pc = "contexts"
    /\ CTX' = [c \in DOMAIN CTX \ Range(_context_list) |-> CTX[c]]
    /\ ub' = (ub \/ \E i \in 1..Len(_context_list) :
                       \/ _context_list[i] \notin DOMAIN CTX
                       \/ \E j \in 1..(i - 1) : _context_list[j] = _context_list[i])
    /\ pc' = "handlers"
    /\ UNCHANGED <<_fh, _atHandlers, ATH, _at, _default_timeout,
                   _slot, _ref_count, SUB, _context_list, held, run>>

\* the loop over _atHandlers: every node is deleted
dtor_handlers ==
    /\ pc = "handlers"
    /\ ATH' = [a \in DOMAIN ATH \ Range(_atHandlers) |-> ATH[a]]
    /\ ub' = (ub \/ \E i \in 1..Len(_atHandlers) :
                       \/ _atHandlers[i] \notin DOMAIN ATH
                       \/ \E j \in 1..(i - 1) : _atHandlers[j] = _atHandlers[i])
    /\ pc' = "dead"
    /\ UNCHANGED <<_fh, _atHandlers, _at, _default_timeout,
                   _slot, _ref_count, SUB, _context_list, CTX, held, run>>

Destructor ==
    \/ dtor_counts
    \/ dtor_close("network", "close_sms")
    \/ dtor_close("sms", "close_power")
    \/ dtor_close("power", "close_information")
    \/ dtor_close("information", "contexts")
    \/ dtor_contexts
    \/ dtor_handlers

----------------------------------------------------------------------------
(* The device used by one caller at a time *)

\* a call by the one caller: the concurrent callers stay where they are
OneCaller(A) == A /\ UNCHANGED <<thr, atvars>>

\* the calls made on the device while it is alive
NextAlive ==
    \/ \E fh \in FhArgs : OneCaller(CallGet(fh))
    \/ \E a \in BagToSet(held) : OneCaller(CallRelease(a))
    \/ \E fh \in FhArgs : OneCaller(open_network(fh))
    \/ \E fh \in FhArgs : OneCaller(open_sms(fh))
    \/ \E fh \in FhArgs : OneCaller(open_power(fh))
    \/ \E fh \in FhArgs : OneCaller(open_information(fh))
    \/ OneCaller(close_network)
    \/ OneCaller(close_sms)
    \/ OneCaller(close_power)
    \/ OneCaller(close_information)
    \/ \E fh \in FhArgs : OneCaller(CallCreate(fh))
    \/ \E c \in DOMAIN CTX \cup {Null} : OneCaller(CallDelete(c))

Next ==
    \/ NextAlive
    \/ OneCaller(Destructor)

Spec == Init /\ [][Next]_vars

\* set_timeout among the calls made while the device is alive
NextTimeout ==
    \/ NextAlive
    \/ \E t \in Timeouts : OneCaller(CallSetTimeout(t))

SpecTimeout == Init /\ [][NextTimeout]_vars

----------------------------------------------------------------------------
(* open_<s>(fh) run by several callers at once: each caller's call is cut  *)
(* at the test of the slot, the get_at_handler call, the construction and  *)
(* the increment of the count                                              *)

ConcUnchanged == UNCHANGED <<_fh, _at, _default_timeout, _context_list, CTX, held,
                             ub, pc, run, atvars>>

\* the call is made
conc_call(t, s, fileHandle) ==
    /\ thr[t].pc = "idle"
    /\ thr' = [thr EXCEPT ![t] = [pc |-> "test", slot |-> s, fh |-> fileHandle,
                                  at |-> Null, ret |-> Null]]
    /\ UNCHANGED <<_slot, _ref_count, SUB, _atHandlers, ATH>>
    /\ ConcUnchanged

\* if (!_network)
conc_test(t) ==
    /\ thr[t].pc = "test"
    /\ thr' = [thr EXCEPT ![t].pc = IF _slot[thr[t].slot] = Null
                                    THEN "acquire" ELSE "count"]
    /\ UNCHANGED <<_slot, _ref_count, SUB, _atHandlers, ATH>>
    /\ ConcUnchanged

\* ATHandler *atHandler = get_at_handler(fh)
conc_acquire(t) ==
    /\ thr[t].pc = "acquire"
    /\ LET r == get_at_handler(_atHandlers, ATH, thr[t].fh, _default_timeout)
       IN  /\ _atHandlers' = r.list
           /\ ATH' = r.ath
           /\ thr' = [thr EXCEPT ![t].at = r.ret, ![t].pc = "construct"]
    /\ UNCHANGED <<_slot, _ref_count, SUB>>
    /\ ConcUnchanged

\* if (atHandler) _network = open_network_impl(*atHandler)
conc_construct(t) ==
    /\ thr[t].pc = "construct"
    /\ LET s == thr[t].slot
           n == NewAddr({p[2] : p \in {q \in DOMAIN SUB : q[1] = s}})
       IN  /\ SUB' = Extend(SUB, <<s, n>>, [at |-> thr[t].at])
           /\ _slot' = [_slot EXCEPT ![s] = n]
    /\ thr' = [thr EXCEPT ![t].pc = "count"]
    /\ UNCHANGED <<_ref_count, _atHandlers, ATH>>
    /\ ConcUnchanged

\* if (_network) _network_ref_count++;  return _network
conc_count(t) ==
    /\ thr[t].pc = "count"
    /\ LET s == thr[t].slot
       IN  /\ _ref_count' = IF _slot[s] # Null
                            THEN [_ref_count EXCEPT ![s] = @ + 1] ELSE _ref_count
           /\ thr' = [thr EXCEPT ![t].ret = _slot[s], ![t].pc = "done"]
    /\ UNCHANGED <<_slot, SUB, _atHandlers, ATH>>
    /\ ConcUnchanged

NextConc ==
    \/ \E t \in Threads, s \in Slots, fh \in FhArgs : conc_call(t, s, fh)
    \/ \E t \in Threads : conc_test(t)
    \/ \E t \in Threads : conc_acquire(t)
    \/ \E t \in Threads : conc_construct(t)
    \/ \E t \in Threads : conc_count(t)

SpecConc == Init /\ [][NextConc]_vars

----------------------------------------------------------------------------
(* The ATHandler exchanges of the device-wide operations, on the handle    *)
(* _at.  lock() takes the handle's mutex and clears the recorded error; a  *)
(* command is written to the transport when it is issued; the modem's      *)
(* answer to an exchange is any of Results; the handle keeps the first     *)
(* error recorded until the error is cleared.                              *)

Results == {"OK", "DEVICE_ERROR"}

\* ATHandler::set_error: the first error recorded stays
set_error(last, err) == IF last = "OK" THEN err ELSE last

\* the +CPIN: payloads the modem may answer with
READY == <<"R", "E", "A", "D", "Y">>
SIM_PIN == <<"S", "I", "M", " ", "P", "I", "N">>
SIM_PUK == <<"S", "I", "M", " ", "P", "U", "K">>

Replies == {READY, SIM_PIN, SIM_PUK,
            <<>>,
            <<"R", "E", "A", "D">>,
            READY \o <<"!">>,
            <<"r", "e", "a", "d", "y">>,
            SIM_PIN \o <<"2">>,
            SIM_PUK \o <<"2">>,
            <<"S", "I", "M", " ", "P", "I">>,
            <<"S", "I", "M", " ", "P", "H", "-", "N", "E", "T", " ", "P", "I", "N">>,
            SIM_PUK \o <<"_", "_", "_", "_", "_", "_", "_", "_", "_", "_">>,
            <<"U", "N", "K", "N", "O", "W", "N", "_", "T", "O", "K", "E", "N">>}

\* the modem behind the transport: "any" answers AT+CPIN? with any payload;
\* "locked" is a SIM that waits for its PIN, "ready" an unlocked SIM
SimModes == {"any", "locked", "ready"}

\* what the modem answers to AT+CPIN?
ModemReplies(m) ==
    IF m = "locked" THEN {SIM_PIN} ELSE IF m = "ready" THEN {READY} ELSE Replies

\* what the modem answers to AT+CPIN=<pin>: an unlocked SIM rejects it
ModemPinResults(m) == IF m = "ready" THEN {"DEVICE_ERROR"} ELSE Results

\* the SIM after AT+CPIN=<pin> was answered with res
ModemAfterPin(m, res) == IF m = "locked" /\ res = "OK" THEN "ready" ELSE m

\* the sim_pin arguments: NULL and a PIN
Pins == {"NULL", "1234"}

\* ATHandler::read_string(buf, size): at most size - 1 characters are stored
read_string(reply, size) ==
    IF Len(reply) > size - 1 THEN SubSeq(reply, 1, size - 1) ELSE reply

\* memcmp(buf, tok, n) == 0, on a buffer holding at least n characters
memcmp0(buf, tok, n) == SubSeq(buf, 1, n) = SubSeq(tok, 1, n)

\* get_sim_state with READY compared on 4 characters
sim_state_of_MutShortReady(len, simstr) ==
    IF len # -1
    THEN IF len >= 4 /\ memcmp0(simstr, READY, 4) THEN "SimStateReady"
         ELSE IF len >= 7 /\ memcmp0(simstr, SIM_PIN, 7) THEN "SimStatePinNeeded"
         ELSE IF len >= 7 /\ memcmp0(simstr, SIM_PUK, 7) THEN "SimStatePukNeeded"
         ELSE "SimStateUnknown"
    ELSE "SimStateUnknown"

\* get_sim_state: the state decided from what read_string returned
sim_state_of(len, simstr) ==
    IF len # -1
    THEN IF len >= 5 /\ memcmp0(simstr, READY, 5) THEN "SimStateReady"
         ELSE IF len >= 7 /\ memcmp0(simstr, SIM_PIN, 7) THEN "SimStatePinNeeded"
         ELSE IF len >= 7 /\ memcmp0(simstr, SIM_PUK, 7) THEN "SimStatePukNeeded"
         ELSE "SimStateUnknown"
    ELSE "SimStateUnknown"

ATUnchanged == UNCHANGED <<devvars, thr>>

\* the locals of a call that has just been made
NewCall(op, first) ==
    [pc |-> first, op |-> op, tr |-> <<>>, outs |-> <<>>,
     ret |-> "none", state |-> "unset", len |-> 0, reply |-> <<>>,
     pin |-> "none", qerr |-> "none", simat |-> "none",
     periodic |-> 0, active |-> 0, pt |-> <<>>, at |-> <<>>]

\* a caller starts an operation
at_call(t, op, first) ==
    /\ call[t].pc = "idle"
    /\ call' = [call EXCEPT ![t] = NewCall(op, first)]
    /\ UNCHANGED <<at_lock, at_last_err, sim>>
    /\ ATUnchanged

\* the caller takes the result and is free for another call
at_return(t) ==
    /\ call[t].pc = "done"
    /\ call' = [call EXCEPT ![t] = IdleThread]
    /\ UNCHANGED <<at_lock, at_last_err, sim>>
    /\ ATUnchanged

\* _at->lock(): blocks while another caller holds the lock, then clears the
\* error the handle recorded before
at_lock_step(t, from, to) ==
    /\ call[t].pc = from
    /\ at_lock = 0
    /\ at_lock' = t
    /\ at_last_err' = "OK"
    /\ call' = [call EXCEPT ![t].pc = to, ![t].tr = Append(@, "lock")]
    /\ UNCHANGED sim
    /\ ATUnchanged

\* a command is sent and its response read (cmd_start .. cmd_stop_read_resp):
\* the modem answers with any result
at_exchange(t, from, to, cmd) ==
    /\ call[t].pc = from
    /\ \E res \in Results :
          /\ at_last_err' = set_error(at_last_err, res)
          /\ call' = [call EXCEPT ![t].pc = to, ![t].tr = Append(@, cmd),
                                  ![t].outs = Append(@, res)]
    /\ UNCHANGED <<at_lock, sim>>
    /\ ATUnchanged

\* return _at->unlock_return_error()
at_unlock_return_error(t, from) ==
    /\ call[t].pc = from
    /\ at_lock' = IF at_lock = t THEN 0 ELSE at_lock
    /\ call' = [call EXCEPT ![t].pc = "done", ![t].tr = Append(@, "unlock"),
                            ![t].ret = at_last_err]
    /\ UNCHANGED <<at_last_err, sim>>
    /\ ATUnchanged

(* is_ready *)

ir_lock(t) == at_lock_step(t, "ir_lock", "ir_at1")

ir_at1(t) == at_exchange(t, "ir_at1", "ir_clear", "AT")

\* is_ready without the clear_error between the probes
ir_clear_MutSkip(t) ==
    /\ call[t].pc = "ir_clear"
    /\ call' = [call EXCEPT ![t].pc = "ir_at2", ![t].tr = Append(@, "clear_error")]
    /\ UNCHANGED <<at_lock, at_last_err, sim>>
    /\ ATUnchanged

\* _at->clear_error()
ir_clear(t) ==
    /\ call[t].pc = "ir_clear"
    /\ at_last_err' = "OK"
    /\ call' = [call EXCEPT ![t].pc = "ir_at2", ![t].tr = Append(@, "clear_error")]
    /\ UNCHANGED <<at_lock, sim>>
    /\ ATUnchanged

ir_at2(t) == at_exchange(t, "ir_at2", "ir_unlock", "AT")

ir_unlock(t) == at_unlock_return_error(t, "ir_unlock")

is_ready(t) ==
    \/ at_call(t, "is_ready", "ir_lock")
    \/ ir_lock(t)
    \/ ir_at1(t)
    \/ ir_clear(t)
    \/ ir_at2(t)
    \/ ir_unlock(t)

(* get_sim_state, called by a user or by set_pin *)

gs_lock(t) == at_lock_step(t, "gs_lock", "gs_cmd")

\* flush, cmd_start("AT+CPIN?"), cmd_stop, resp_start("+CPIN:"): the command
\* is on the wire; what comes back shows in read_string and resp_stop
gs_cmd(t) ==
    /\ call[t].pc = "gs_cmd"
    /\ call' = [call EXCEPT ![t].pc = "gs_read", ![t].tr = Append(@, "AT+CPIN?")]
    /\ UNCHANGED <<at_lock, at_last_err, sim>>
    /\ ATUnchanged

\* len = read_string(simstr, sizeof(simstr)) and the decision of the state:
\* the read fails (with or without an error recorded) or stores a reply
gs_read(t) ==
    /\ call[t].pc = "gs_read"
    /\ \/ \E res \in Results :
             /\ at_last_err' = set_error(at_last_err, res)
             /\ call' = [call EXCEPT ![t].pc = "gs_stop",
                                     ![t].outs = Append(@, res),
                                     ![t].len = -1,
                                     ![t].state = sim_state_of(-1, <<>>)]
       \/ \E reply \in ModemReplies(sim) :
             LET simstr == read_string(reply, MAX_SIM_RESPONSE_LENGTH)
             IN  /\ at_last_err' = at_last_err
                 /\ call' = [call EXCEPT ![t].pc = "gs_stop",
                                         ![t].outs = Append(@, "OK"),
                                         ![t].reply = reply,
                                         ![t].len = Len(simstr),
                                         ![t].state = sim_state_of(Len(simstr), simstr)]
    /\ UNCHANGED <<at_lock, sim>>
    /\ ATUnchanged

\* _at->resp_stop(): the rest of the response is consumed, with any result
gs_stop(t) ==
    /\ call[t].pc = "gs_stop"
    /\ \E res \in Results :
          /\ at_last_err' = set_error(at_last_err, res)
          /\ call' = [call EXCEPT ![t].pc = "gs_unlock", ![t].outs = Append(@, res)]
    /\ UNCHANGED <<at_lock, sim>>
    /\ ATUnchanged

\* get_sim_state that returns without _at->unlock()
gs_unlock_MutKeepLock(t) ==
    /\ call[t].pc = "gs_unlock"
    /\ call' = [call EXCEPT ![t].pc = IF call[t].op = "set_pin" THEN "sp_test" ELSE "done",
                            ![t].qerr = at_last_err,
                            ![t].ret = IF call[t].op = "set_pin" THEN @ ELSE at_last_err]
    /\ UNCHANGED <<at_lock, at_last_err, sim>>
    /\ ATUnchanged

\* error = get_last_error(); unlock(); return error: to the user, or into
\* the test at the head of set_pin
gs_unlock(t) ==
    /\ call[t].pc = "gs_unlock"
    /\ at_lock' = IF at_lock = t THEN 0 ELSE at_lock
    /\ call' = [call EXCEPT ![t].pc = IF call[t].op = "set_pin" THEN "sp_test" ELSE "done",
                            ![t].tr = Append(@, "unlock"),
                            ![t].qerr = at_last_err,
                            ![t].ret = IF call[t].op = "set_pin" THEN @ ELSE at_last_err]
    /\ UNCHANGED <<at_last_err, sim>>
    /\ ATUnchanged

get_sim_state(t) ==
    \/ at_call(t, "get_sim_state", "gs_lock")
    \/ gs_lock(t)
    \/ gs_cmd(t)
    \/ gs_read(t)
    \/ gs_stop(t)
    \/ gs_unlock(t)

(* set_pin *)

\* set_pin(sim_pin) is called: it starts with get_sim_state(state)
sp_call(t, sim_pin) ==
    /\ call[t].pc = "idle"
    /\ call' = [call EXCEPT ![t] = [NewCall("set_pin", "gs_lock") EXCEPT !.pin = sim_pin]]
    /\ UNCHANGED <<at_lock, at_last_err, sim>>
    /\ ATUnchanged

\* set_pin that sends the PIN whatever state the query decided
sp_test_MutNoReadyTest(t) ==
    /\ call[t].pc = "sp_test"
    /\ call' = [call EXCEPT
          ![t].pc  = IF call[t].pin = "NULL" THEN "done" ELSE "sp_lock",
          ![t].ret = IF call[t].pin = "NULL" THEN "PARAMETER" ELSE @]
    /\ UNCHANGED <<at_lock, at_last_err, sim>>
    /\ ATUnchanged

\* set_pin without the test of sim_pin
sp_test_MutNoNullTest(t) ==
    /\ call[t].pc = "sp_test"
    /\ LET ready == call[t].qerr = "OK" /\ call[t].state = "SimStateReady"
       IN  call' = [call EXCEPT
              ![t].pc  = IF ready THEN "done" ELSE "sp_lock",
              ![t].ret = IF ready THEN "OK" ELSE @]
    /\ UNCHANGED <<at_lock, at_last_err, sim>>
    /\ ATUnchanged

\* if (get_sim_state(state) == NSAPI_ERROR_OK && state == SimStateReady)
\*     return NSAPI_ERROR_OK;
\* if (sim_pin == NULL) return NSAPI_ERROR_PARAMETER;
sp_test(t) ==
    /\ call[t].pc = "sp_test"
    /\ LET ready == call[t].qerr = "OK" /\ call[t].state = "SimStateReady"
           null  == call[t].pin = "NULL"
       IN  call' = [call EXCEPT
              ![t].pc  = IF ready \/ null THEN "done" ELSE "sp_lock",
              ![t].ret = IF ready THEN "OK" ELSE IF null THEN "PARAMETER" ELSE @]
    /\ UNCHANGED <<at_lock, at_last_err, sim>>
    /\ ATUnchanged

\* set_pin that sends the PIN without _at->lock()
sp_lock_MutNoLock(t) ==
    /\ call[t].pc = "sp_lock"
    /\ call' = [call EXCEPT ![t].pc = "sp_cmd"]
    /\ UNCHANGED <<at_lock, at_last_err, sim>>
    /\ ATUnchanged

\* _at->lock()
sp_lock(t) == at_lock_step(t, "sp_lock", "sp_cmd")

\* cmd_start("AT+CPIN="), write_string(sim_pin), cmd_stop_read_resp()
sp_cmd(t) ==
    /\ call[t].pc = "sp_cmd"
    /\ \E res \in ModemPinResults(sim) :
          /\ at_last_err' = set_error(at_last_err, res)
          /\ sim' = ModemAfterPin(sim, res)
          /\ call' = [call EXCEPT ![t].pc = "sp_unlock",
                                  ![t].tr = Append(@, "AT+CPIN="),
                                  ![t].outs = Append(@, res),
                                  ![t].simat = sim]
    /\ UNCHANGED at_lock
    /\ ATUnchanged

\* return _at->unlock_return_error()
sp_unlock(t) == at_unlock_return_error(t, "sp_unlock")

\* the steps of set_pin after the call (those of get_sim_state come first)
set_pin(t) ==
    \/ sp_test(t)
    \/ sp_lock(t)
    \/ sp_cmd(t)
    \/ sp_unlock(t)

(* set_power_save_mode *)

\* const int PSMTimerBits = 5
PSMTimerBits == 5

\* const int ie_value_max = 0x1f
ie_value_max == 31

\* 2^n
RECURSIVE Pow2(_)
Pow2(n) == IF n = 0 THEN 1 ELSE 2 * Pow2(n - 1)

\* uint_to_binary_str(num, str, str_size, bit_cnt): the low bit_cnt bits of
\* num as characters, the most significant of them first
RECURSIVE uint_to_binary_str(_, _)
uint_to_binary_str(num, bit_cnt) ==
    IF bit_cnt = 0 THEN <<>>
    ELSE <<IF (num \div Pow2(bit_cnt - 1)) % 2 = 1 THEN "1" ELSE "0">>
         \o uint_to_binary_str(num, bit_cnt - 1)

\* strcpy(pt, str); uint_to_binary_str(timer, &pt[3], sizeof(pt) - 3,
\* PSMTimerBits); pt[8] = '\0': the three characters of the unit stay, the
\* five that follow are overwritten
ie_string(str, timer) == SubSeq(str, 1, 3) \o uint_to_binary_str(timer, PSMTimerBits)

\* the periodic timer with the first bucket tested on the quotient, not on
\* the duration
periodic_ie_MutQuotientTest(periodic_time) ==
    IF periodic_time \div 2 <= ie_value_max
    THEN ie_string(<<"0", "1", "1", "0", "0", "0", "0", "0">>, periodic_time \div 2)
    ELSE IF periodic_time <= 30 * ie_value_max
    THEN ie_string(<<"1", "0", "0", "0", "0", "0", "0", "0">>, periodic_time \div 30)
    ELSE IF periodic_time <= 60 * ie_value_max
    THEN ie_string(<<"1", "0", "1", "0", "0", "0", "0", "0">>, periodic_time \div 60)
    ELSE IF periodic_time <= 10 * 60 * ie_value_max
    THEN ie_string(<<"0", "0", "0", "0", "0", "0", "0", "0">>, periodic_time \div (10 * 60))
    ELSE IF periodic_time <= 60 * 60 * ie_value_max
    THEN ie_string(<<"0", "0", "1", "0", "0", "0", "0", "0">>, periodic_time \div (60 * 60))
    ELSE IF periodic_time <= 10 * 60 * 60 * ie_value_max
    THEN ie_string(<<"0", "1", "0", "0", "0", "0", "0", "0">>,
                   periodic_time \div (10 * 60 * 60))
    ELSE LET t == periodic_time \div (320 * 60 * 60)
         IN  ie_string(<<"1", "1", "0", "0", "0", "0", "0", "0">>,
                       IF t > ie_value_max THEN ie_value_max ELSE t)

\* the periodic timer with the 30 second and the 1 minute units exchanged
periodic_ie_MutSwapUnits(periodic_time) ==
    IF periodic_time <= 2 * ie_value_max
    THEN ie_string(<<"0", "1", "1", "0", "0", "0", "0", "0">>, periodic_time \div 2)
    ELSE IF periodic_time <= 30 * ie_value_max
    THEN ie_string(<<"1", "0", "1", "0", "0", "0", "0", "0">>, periodic_time \div 30)
    ELSE IF periodic_time <= 60 * ie_value_max
    THEN ie_string(<<"1", "0", "0", "0", "0", "0", "0", "0">>, periodic_time \div 60)
    ELSE IF periodic_time <= 10 * 60 * ie_value_max
    THEN ie_string(<<"0", "0", "0", "0", "0", "0", "0", "0">>, periodic_time \div (10 * 60))
    ELSE IF periodic_time <= 60 * 60 * ie_value_max
    THEN ie_string(<<"0", "0", "1", "0", "0", "0", "0", "0">>, periodic_time \div (60 * 60))
    ELSE IF periodic_time <= 10 * 60 * 60 * ie_value_max
    THEN ie_string(<<"0", "1", "0", "0", "0", "0", "0", "0">>,
                   periodic_time \div (10 * 60 * 60))
    ELSE LET t == periodic_time \div (320 * 60 * 60)
         IN  ie_string(<<"1", "1", "0", "0", "0", "0", "0", "0">>,
                       IF t > ie_value_max THEN ie_value_max ELSE t)

\* pt: the periodic timer as a GPRS Timer 3 information element
periodic_ie(periodic_time) ==
    IF periodic_time <= 2 * ie_value_max
    THEN ie_string(<<"0", "1", "1", "0", "0", "0", "0", "0">>, periodic_time \div 2)
    ELSE IF periodic_time <= 30 * ie_value_max
    THEN ie_string(<<"1", "0", "0", "0", "0", "0", "0", "0">>, periodic_time \div 30)
    ELSE IF periodic_time <= 60 * ie_value_max
    THEN ie_string(<<"1", "0", "1", "0", "0", "0", "0", "0">>, periodic_time \div 60)
    ELSE IF periodic_time <= 10 * 60 * ie_value_max
    THEN ie_string(<<"0", "0", "0", "0", "0", "0", "0", "0">>, periodic_time \div (10 * 60))
    ELSE IF periodic_time <= 60 * 60 * ie_value_max
    THEN ie_string(<<"0", "0", "1", "0", "0", "0", "0", "0">>, periodic_time \div (60 * 60))
    ELSE IF periodic_time <= 10 * 60 * 60 * ie_value_max
    THEN ie_string(<<"0", "1", "0", "0", "0", "0", "0", "0">>,
                   periodic_time \div (10 * 60 * 60))
    ELSE LET t == periodic_time \div (320 * 60 * 60)
         IN  ie_string(<<"1", "1", "0", "0", "0", "0", "0", "0">>,
                       IF t > ie_value_max THEN ie_value_max ELSE t)

\* the active timer without the limit of the decihour magnitude
active_ie_MutNoClamp(active_time) ==
    IF active_time <= 2 * ie_value_max
    THEN ie_string(<<"0", "0", "0", "0", "0", "0", "0", "0">>, active_time \div 2)
    ELSE IF active_time <= 60 * ie_value_max
    THEN ie_string(<<"0", "0", "1", "0", "0", "0", "0", "0">>,
                   Pow2(5) + (active_time \div 60))
    ELSE ie_string(<<"0", "1", "0", "0", "0", "0", "0", "0">>, active_time \div (6 * 60))

\* at: the active timer as a GPRS Timer information element; in the minute
\* bucket the quotient is at most 31, so (1 << 5) | quotient is 32 + quotient
active_ie(active_time) ==
    IF active_time <= 2 * ie_value_max
    THEN ie_string(<<"0", "0", "0", "0", "0", "0", "0", "0">>, active_time \div 2)
    ELSE IF active_time <= 60 * ie_value_max
    THEN ie_string(<<"0", "0", "1", "0", "0", "0", "0", "0">>,
                   Pow2(5) + (active_time \div 60))
    ELSE LET t == active_time \div (6 * 60)
         IN  ie_string(<<"0", "1", "0", "0", "0", "0", "0", "0">>,
                       IF t > ie_value_max THEN ie_value_max ELSE t)

\* the unit lengths of the two timers, in seconds
TimerUnits == {2, 30, 60, 6 * 60, 10 * 60, 60 * 60, 10 * 60 * 60, 320 * 60 * 60}

\* the durations of the boundary cases
BoundaryDurations == {60, 90, 621, 1000000}

\* the largest int
INT_MAX == 2147483647

\* the durations a caller passes: none is negative.  Around each unit
\* length, around 31 and 32 times each unit length, the boundary cases and
\* the largest int
Durations ==
    {0, INT_MAX} \cup BoundaryDurations
    \cup {x \in {k * u + d : k \in {1, ie_value_max, ie_value_max + 1},
                                u \in TimerUnits, d \in (0 - MaxSlack)..MaxSlack} :
              x >= 0}

\* the arguments used where several callers run at once
FewDurations == {<<0, 0>>, <<60, 90>>}

\* set_power_save_mode(periodic_time, active_time) is called
ps_call(t, periodic_time, active_time) ==
    /\ call[t].pc = "idle"
    /\ call' = [call EXCEPT ![t] =
                   [NewCall("set_power_save_mode", "ps_lock")
                       EXCEPT !.periodic = periodic_time, !.active = active_time]]
    /\ UNCHANGED <<at_lock, at_last_err, sim>>
    /\ ATUnchanged

\* _at->lock()
ps_lock(t) == at_lock_step(t, "ps_lock", "ps_cmd")

\* both zero: AT+CPSMS=0; otherwise the two timers are encoded and
\* AT+CPSMS=1,pt,at,pt,at is sent
ps_cmd(t) ==
    /\ call[t].pc = "ps_cmd"
    /\ \E res \in Results :
          /\ at_last_err' = set_error(at_last_err, res)
          /\ call' = IF call[t].periodic = 0 /\ call[t].active = 0
                     THEN [call EXCEPT ![t].pc = "ps_unlock",
                                       ![t].tr = Append(@, "AT+CPSMS=0"),
                                       ![t].outs = Append(@, res)]
                     ELSE [call EXCEPT ![t].pc = "ps_unlock",
                                       ![t].tr = Append(@, "AT+CPSMS=1"),
                                       ![t].outs = Append(@, res),
                                       ![t].pt = periodic_ie(call[t].periodic),
                                       ![t].at = active_ie(call[t].active)]
    /\ UNCHANGED <<at_lock, sim>>
    /\ ATUnchanged

\* return _at->unlock_return_error()
ps_unlock(t) == at_unlock_return_error(t, "ps_unlock")

\* the steps of set_power_save_mode after the call
set_power_save_mode(t) ==
    \/ ps_lock(t)
    \/ ps_cmd(t)
    \/ ps_unlock(t)

(* The specifications of the AT operations *)

NextAT ==
    \/ \E t \in Threads : is_ready(t)
    \/ \E t \in Threads : get_sim_state(t)
    \/ \E t \in Threads : at_return(t)

SpecAT == Init /\ [][NextAT]_vars

\* the four operations called by several callers at once, on a modem whose
\* SIM is locked or unlocked
NextPin ==
    \/ \E t \in Threads : is_ready(t)
    \/ \E t \in Threads : get_sim_state(t)
    \/ \E t \in Threads, p \in Pins : sp_call(t, p)
    \/ \E t \in Threads : set_pin(t)
    \/ \E t \in Threads, d \in FewDurations : ps_call(t, d[1], d[2])
    \/ \E t \in Threads : set_power_save_mode(t)
    \/ \E t \in Threads : at_return(t)

SpecPin == InitPin /\ [][NextPin]_vars

\* no other caller is in a call
Alone(t) == \A u \in Threads \ {t} : call[u].pc = "idle"

\* set_power_save_mode called with any two durations, one call at a time
NextPsm ==
    \/ \E t \in Threads :
          /\ Alone(t)
          /\ call[t].pc = "idle"
          /\ \E p \in Durations, a \in Durations : ps_call(t, p, a)
    \/ \E t \in Threads : set_power_save_mode(t)
    \/ \E t \in Threads : at_return(t)

SpecPsm == Init /\ [][NextPsm]_vars

----------------------------------------------------------------------------
(* Properties of the pool, the slots, the context list and the destructor *)

PoolLive == pc # "dead"

\* C1: the pool holds at most one ATHandler per file handle, and a request
\* with no file handle is answered with the handle of the device's own file
\* handle
C1_OneHandlePerFileHandle ==
    /\ PoolLive =>
          \A i, j \in 1..Len(_atHandlers) :
             i # j => ATH[_atHandlers[i]].fh # ATH[_atHandlers[j]].fh
    /\ (run.kind = "pool" /\ run.rels = 0 /\ run.arg = Null) =>
          /\ run.ret \in DOMAIN ATH
          /\ ATH[run.ret].fh = _fh

C1_Witness ==
    /\ Len(_atHandlers) = 3
    /\ run.kind = "pool" /\ run.rels = 0 /\ run.arg = Null /\ run.made = 0

\* C2 as stated: after N get_at_handler(T) and N release_at_handler calls the
\* pool has no entry for T, one handle was constructed and one destroyed,
\* for any transport T
C2_AnyTransport ==
    (run.kind = "pool" /\ run.gets = run.rels) =>
        /\ PoolHits(_atHandlers, ATH, run.fh) = {}
        /\ run.made = 1
        /\ run.freed = 1

\* C2 amended: the same for a transport T that has no handle in the pool
\* when the first get_at_handler(T) is made
C2_FreshTransport ==
    (run.kind = "pool" /\ run.gets = run.rels /\ ~run.pre) =>
        /\ PoolHits(_atHandlers, ATH, run.fh) = {}
        /\ run.made = 1
        /\ run.freed = 1

C2_Witness ==
    run.kind = "pool" /\ ~run.pre /\ run.gets = 3 /\ run.rels = 3

\* C3: K opens of an empty slot before any close return the same instance;
\* after K closes the slot is empty and the reference count of the handle
\* the subsystem was bound to is what it was before the first open (the
\* handle is gone if it did not exist then)
C3_OpenCloseBalanced ==
    (run.kind = "slot" /\ run.empty0) =>
        /\ run.same
        /\ run.closes = 0 => _slot[run.slot] = run.inst
        /\ run.closes = run.opens =>
              /\ _slot[run.slot] = Null
              /\ _ref_count[run.slot] = 0
              /\ RefOf(ATH, run.at) = run.pre

C3_Witness ==
    /\ run.kind = "slot" /\ run.empty0 /\ run.opens = 3 /\ run.closes = 3
    /\ run.pre >= 1

\* C4 as stated: a slot's reference count is 0 iff the slot is empty, after
\* any sequence of opens and closes and after the close calls of the
\* destructor
C4_CountZeroIffEmpty_Everywhere ==
    pc \in {"alive", "contexts", "handlers", "dead"} =>
        \A s \in Slots : (_ref_count[s] = 0) <=> (_slot[s] = Null)

\* C4 amended: a slot's reference count is 0 iff the slot is empty in every
\* state of the live device, closes of an empty slot included
C4_CountZeroIffEmpty ==
    Alive => \A s \in Slots : (_ref_count[s] = 0) <=> (_slot[s] = Null)

C4_Witness ==
    /\ Alive
    /\ run.kind = "slot" /\ run.empty0 /\ run.closes = run.opens + 1
    /\ \E s \in Slots : _ref_count[s] = 2

\* C6: delete_context of the context create_context just returned gives back
\* the handle reference create_context took
C6_DeleteReleasesHandle ==
    (run.kind = "ctx" /\ run.op = "roundtrip") => RefOf(ATH, run.at) = run.pre

\* C7: create_context appends at the tail, delete_context of a member
\* removes that member alone and keeps the order of the others, and a
\* create followed by the delete of the context it returned restores the list
C7_ListOrder ==
    /\ (run.kind = "ctx" /\ run.op = "create") =>
          /\ run.ctx \notin Range(run.before)
          /\ _context_list = Append(run.before, run.ctx)
    /\ (run.kind = "ctx" /\ run.op \in {"delete", "roundtrip"}
                         /\ run.ctx \in Range(run.mid)) =>
          \E i \in 1..Len(run.mid) :
              /\ run.mid[i] = run.ctx
              /\ _context_list = RemoveAt(run.mid, i)
    /\ (run.kind = "ctx" /\ run.op = "roundtrip") => _context_list = run.before

C7_Witness ==
    run.kind = "ctx" /\ run.op = "roundtrip" /\ Len(run.before) = 2

C7_MiddleDeleted ==
    run.kind = "ctx" /\ run.op = "delete" /\ Len(run.mid) = 3 /\ run.mid[2] = run.ctx

\* C8: the destructor leaves no subsystem, context or handle allocated,
\* deletes nothing twice, and no handle is deleted while a subsystem or a
\* context bound to it is still allocated
C8_TeardownFreesAll ==
    /\ pc = "dead" => (DOMAIN SUB = {} /\ DOMAIN CTX = {} /\ DOMAIN ATH = {})
    /\ ~ub
    /\ \A p \in DOMAIN SUB : SUB[p].at \in DOMAIN ATH
    /\ \A c \in DOMAIN CTX : CTX[c].at \in DOMAIN ATH

C8_Witness ==
    /\ pc = "dead"
    /\ run.kind = "destroy" /\ run.subs >= 2 /\ run.ctxs >= 1 /\ run.handles >= 2

----------------------------------------------------------------------------
(* Properties of concurrent opens *)

Callers(s) == {t \in Threads : thr[t].pc # "idle" /\ thr[t].slot = s}

HandleRefs ==
    LET Refs[i \in 0..Len(_atHandlers)] ==
            IF i = 0 THEN 0 ELSE ATH[_atHandlers[i]].ref + Refs[i - 1]
    IN  Refs[Len(_atHandlers)]

\* C5: callers that open the same slot at the same time all get the same
\* instance, one subsystem is constructed and one handle reference is taken
\* for it
C5_ConcurrentOpenOnce ==
    \A s \in Slots :
       (Cardinality(Callers(s)) >= 2 /\ \A t \in Callers(s) : thr[t].pc = "done") =>
           /\ \A t, u \in Callers(s) : thr[t].ret = thr[u].ret
           /\ Cardinality({p \in DOMAIN SUB : p[1] = s}) = 1
           /\ (\A u \in Threads : thr[u].pc \in {"idle", "done"}) =>
                 HandleRefs = 1 + Cardinality({x \in Slots : _slot[x] # Null})

----------------------------------------------------------------------------
(* Properties of the device-wide AT operations *)

Done(t, op) == call[t].pc = "done" /\ call[t].op = op

\* the error a handle holds after the results outs, starting from error e
RECURSIVE ErrorAfter(_, _)
ErrorAfter(e, outs) ==
    IF outs = <<>> THEN e
    ELSE ErrorAfter(IF e = "OK" THEN Head(outs) ELSE e, Tail(outs))

\* C9: is_ready takes the lock once, sends AT, clears the error, sends AT
\* again, and returns the result of the second probe whatever the first
\* probe gave
C9_IsReadySecondProbe ==
    \A t \in Threads :
       Done(t, "is_ready") =>
          /\ call[t].tr = <<"lock", "AT", "clear_error", "AT", "unlock">>
          /\ call[t].ret = call[t].outs[2]

C9_Witness ==
    \E t \in Threads :
       /\ Done(t, "is_ready")
       /\ call[t].outs = <<"DEVICE_ERROR", "OK">>
       /\ call[t].ret = "OK"

HasPrefix(reply, tok) ==
    /\ Len(reply) >= Len(tok)
    /\ \A i \in 1..Len(tok) : reply[i] = tok[i]

\* C10: get_sim_state decides Ready, PinNeeded, PukNeeded from a reply that
\* starts with READY, SIM PIN, SIM PUK, Unknown from any other reply and
\* from a failed read, and returns the error the handle holds at the end
\* whichever state it decided
C10_SimStateDecoding ==
    \A t \in Threads :
       Done(t, "get_sim_state") =>
          /\ call[t].state =
                IF call[t].len = -1 THEN "SimStateUnknown"
                ELSE IF HasPrefix(call[t].reply, READY) THEN "SimStateReady"
                ELSE IF HasPrefix(call[t].reply, SIM_PIN) THEN "SimStatePinNeeded"
                ELSE IF HasPrefix(call[t].reply, SIM_PUK) THEN "SimStatePukNeeded"
                ELSE "SimStateUnknown"
          /\ call[t].ret = ErrorAfter("OK", call[t].outs)
          /\ call[t].tr = <<"lock", "AT+CPIN?", "unlock">>

C10_Witness ==
    \E t \in Threads :
       /\ Done(t, "get_sim_state")
       /\ call[t].len = MAX_SIM_RESPONSE_LENGTH - 1 /\ Len(call[t].reply) > call[t].len
       /\ call[t].state = "SimStatePukNeeded"
       /\ call[t].ret = "DEVICE_ERROR"

----------------------------------------------------------------------------
(* Properties of set_pin *)

\* how many times the call of t wrote cmd to the transport
Sent(t, cmd) == Cardinality({i \in 1..Len(call[t].tr) : call[t].tr[i] = cmd})

\* the call of t began with the SIM-state query, under the lock
QueryFirst(t) ==
    /\ Len(call[t].tr) >= 3
    /\ SubSeq(call[t].tr, 1, 3) = <<"lock", "AT+CPIN?", "unlock">>

\* C11 as stated: set_pin performs the SIM-state query first, and whenever
\* the query decides Ready it returns success without sending AT+CPIN=<pin>,
\* whatever the pin argument
C11_ReadyReturnsOk_AnyQueryResult ==
    \A t \in Threads :
       Done(t, "set_pin") =>
          /\ QueryFirst(t)
          /\ call[t].state = "SimStateReady" =>
                (call[t].ret = "OK" /\ Sent(t, "AT+CPIN=") = 0)

\* C11: set_pin performs the SIM-state query first, and whenever the query
\* returns success and decides Ready, set_pin returns success without
\* sending AT+CPIN=<pin>, whatever the pin argument, NULL included
C11_ReadyReturnsOk ==
    \A t \in Threads :
       Done(t, "set_pin") =>
          /\ QueryFirst(t)
          /\ (call[t].qerr = "OK" /\ call[t].state = "SimStateReady") =>
                (call[t].ret = "OK" /\ Sent(t, "AT+CPIN=") = 0)

C11_Witness ==
    \E t \in Threads :
       /\ Done(t, "set_pin")
       /\ call[t].pin = "NULL"
       /\ call[t].qerr = "OK" /\ call[t].state = "SimStateReady"
       /\ call[t].ret = "OK"

\* C12: when the state decided is not Ready, set_pin(NULL) returns the
\* parameter error, sends no AT+CPIN=<pin> and leaves the lock free; with a
\* PIN it sends AT+CPIN=<pin> once and returns the result of that command
C12_NullPinParameterError ==
    \A t \in Threads :
       (Done(t, "set_pin") /\ call[t].state # "SimStateReady") =>
          IF call[t].pin = "NULL"
          THEN /\ call[t].ret = "PARAMETER"
               /\ Sent(t, "AT+CPIN=") = 0
               /\ at_lock # t
          ELSE /\ Sent(t, "AT+CPIN=") = 1
               /\ call[t].ret = call[t].outs[Len(call[t].outs)]
               /\ at_lock # t

C12_Witness ==
    \E t, u \in Threads :
       /\ Done(t, "set_pin") /\ call[t].pin = "NULL"
       /\ call[t].state = "SimStatePinNeeded" /\ call[t].ret = "PARAMETER"
       /\ Done(u, "set_pin") /\ call[u].pin # "NULL"
       /\ call[u].state = "SimStateUnknown" /\ call[u].qerr = "DEVICE_ERROR"
       /\ Sent(u, "AT+CPIN=") = 1 /\ call[u].ret = "OK"

\* C13 as stated: a set_pin call that ends with the parameter error has
\* taken no lock and written no command
C13_ParameterErrorBeforeTransport ==
    \A t \in Threads :
       (Done(t, "set_pin") /\ call[t].ret = "PARAMETER") => call[t].tr = <<>>

\* C13: a set_pin call that ends with the parameter error was given NULL,
\* has made the SIM-state query (one lock, AT+CPIN?, unlock) and nothing
\* else on the transport, and returns with the lock free
C13_ParameterErrorAfterQuery ==
    \A t \in Threads :
       (Done(t, "set_pin") /\ call[t].ret = "PARAMETER") =>
          /\ call[t].pin = "NULL"
          /\ call[t].tr = <<"lock", "AT+CPIN?", "unlock">>
          /\ at_lock # t

C13_Witness ==
    \E t \in Threads :
       /\ Done(t, "set_pin")
       /\ call[t].ret = "PARAMETER"
       /\ call[t].qerr = "OK"
       /\ Sent(t, "AT+CPIN?") = 1

----------------------------------------------------------------------------
(* Properties of the power-save timers *)

\* the number a string of binary digits stands for
RECURSIVE BinValue(_)
BinValue(bits) ==
    IF bits = <<>> THEN 0
    ELSE 2 * BinValue(SubSeq(bits, 1, Len(bits) - 1))
         + (IF bits[Len(bits)] = "1" THEN 1 ELSE 0)

TagOf(ie) == SubSeq(ie, 1, 3)

MagnitudeOf(ie) == BinValue(SubSeq(ie, 4, 8))

\* the units of the periodic timer, smallest first, with their tags
PeriodicTable ==
    << [unit |-> 2,       tag |-> <<"0", "1", "1">>],
       [unit |-> 30,      tag |-> <<"1", "0", "0">>],
       [unit |-> 60,      tag |-> <<"1", "0", "1">>],
       [unit |-> 600,     tag |-> <<"0", "0", "0">>],
       [unit |-> 3600,    tag |-> <<"0", "0", "1">>],
       [unit |-> 36000,   tag |-> <<"0", "1", "0">>],
       [unit |-> 1152000, tag |-> <<"1", "1", "0">>] >>

\* the units of the active timer, smallest first, with their tags
ActiveTable ==
    << [unit |-> 2,   tag |-> <<"0", "0", "0">>],
       [unit |-> 60,  tag |-> <<"0", "0", "1">>],
       [unit |-> 360, tag |-> <<"0", "1", "0">>] >>

\* the entry of a table that carries the tag of ie
EntryOf(table, ie) ==
    table[CHOOSE i \in 1..Len(table) : table[i].tag = TagOf(ie)]

\* the calls of set_power_save_mode that have encoded their timers
Encoded(t) ==
    /\ Done(t, "set_power_save_mode")
    /\ ~(call[t].periodic = 0 /\ call[t].active = 0)

\* the first unit whose count floor(d / unit) is at most 31, the last if none
FirstByCount(table, d) ==
    LET fit == {i \in 1..Len(table) - 1 : d \div table[i].unit <= 31}
    IN  IF fit = {} THEN Len(table) ELSE Min(fit)

\* the first unit that can express d, 31 times the unit being at least d,
\* the last if none
FirstByReach(table, d) ==
    LET fit == {i \in 1..Len(table) - 1 : d <= 31 * table[i].unit}
    IN  IF fit = {} THEN Len(table) ELSE Min(fit)

Clamp31(n) == IF n > 31 THEN 31 ELSE n

\* C14 as stated: the periodic timer has the first unit whose count
\* floor(duration / unit) does not exceed 31, the 320 h unit otherwise, and
\* the magnitude floor(duration / unit), at most 31
C14_PeriodicFirstUnitByCount ==
    \A t \in Threads :
       Encoded(t) =>
          LET e == PeriodicTable[FirstByCount(PeriodicTable, call[t].periodic)]
          IN  /\ TagOf(call[t].pt) = e.tag
              /\ MagnitudeOf(call[t].pt) = Clamp31(call[t].periodic \div e.unit)

\* C14: the periodic timer has the first unit, in the order 2 s, 30 s,
\* 1 min, 10 min, 1 h, 10 h, that can express the duration (the duration is
\* at most 31 times the unit), the 320 h unit otherwise, with the tag of
\* that unit and the magnitude floor(duration / unit), at most 31
C14_PeriodicFirstUnitByReach ==
    \A t \in Threads :
       Encoded(t) =>
          LET e == PeriodicTable[FirstByReach(PeriodicTable, call[t].periodic)]
          IN  /\ Len(call[t].pt) = 8
              /\ TagOf(call[t].pt) = e.tag
              /\ MagnitudeOf(call[t].pt) = Clamp31(call[t].periodic \div e.unit)

C14_Witness ==
    \E t \in Threads :
       /\ Encoded(t)
       /\ call[t].periodic = 2 * 31 + 1
       /\ call[t].pt = <<"1", "0", "0", "0", "0", "0", "1", "0">>

\* C15 as stated: periodic 60 is encoded in 30 s units with magnitude 2,
\* periodic 621 in 1 h units, periodic 1,000,000 in 320 h units with
\* magnitude 31, active 90 in 1 min units with magnitude 1
C15_BoundaryBuckets_AsStated ==
    \A t \in Threads :
       Encoded(t) =>
          /\ call[t].periodic = 60 =>
                (TagOf(call[t].pt) = <<"1", "0", "0">> /\ MagnitudeOf(call[t].pt) = 2)
          /\ call[t].periodic = 621 => TagOf(call[t].pt) = <<"0", "0", "1">>
          /\ call[t].periodic = 1000000 =>
                (TagOf(call[t].pt) = <<"1", "1", "0">> /\ MagnitudeOf(call[t].pt) = 31)
          /\ call[t].active = 90 =>
                (TagOf(call[t].at) = <<"0", "0", "1">> /\ MagnitudeOf(call[t].at) = 1)

\* C15: periodic 60 is encoded in 2 s units with magnitude 30, periodic 621
\* in 30 s units with magnitude 20, periodic 1,000,000 in 10 h units with
\* magnitude 27, active 90 in 1 min units with magnitude 1
C15_BoundaryBuckets ==
    \A t \in Threads :
       Encoded(t) =>
          /\ call[t].periodic = 60 =>
                call[t].pt = <<"0", "1", "1", "1", "1", "1", "1", "0">>
          /\ call[t].periodic = 621 =>
                call[t].pt = <<"1", "0", "0", "1", "0", "1", "0", "0">>
          /\ call[t].periodic = 1000000 =>
                call[t].pt = <<"0", "1", "0", "1", "1", "0", "1", "1">>
          /\ call[t].active = 90 =>
                call[t].at = <<"0", "0", "1", "0", "0", "0", "0", "1">>

C15_Witness ==
    \E t \in Threads :
       /\ Encoded(t)
       /\ call[t].periodic = 1000000 /\ call[t].active = 90
       /\ call[t].tr = <<"lock", "AT+CPSMS=1", "unlock">>

\* the duration an information element stands for
Decoded(table, ie) == EntryOf(table, ie).unit * MagnitudeOf(ie)

\* the magnitude is in 0..31, the duration decoded is not above the one
\* requested, and it is less than a unit below it unless the last unit of
\* the table cut the magnitude to 31
Faithful(table, ie, d) ==
    LET e == EntryOf(table, ie)
        cut == e = table[Len(table)] /\ d \div e.unit > 31
    IN  /\ Len(ie) = 8
        /\ \E i \in 1..Len(table) : table[i].tag = TagOf(ie)
        /\ MagnitudeOf(ie) \in 0..31
        /\ Decoded(table, ie) <= d
        /\ IF cut THEN MagnitudeOf(ie) = 31 ELSE d - Decoded(table, ie) < e.unit

\* C16: for periodic and active durations not both zero, each timer has a
\* magnitude in 0..31 and decodes to a duration that does not exceed the one
\* requested and is less than one unit below it, unless the last unit cut
\* the magnitude to 31
C16_DecodedWithinOneUnit ==
    \A t \in Threads :
       Encoded(t) =>
          /\ Faithful(PeriodicTable, call[t].pt, call[t].periodic)
          /\ Faithful(ActiveTable, call[t].at, call[t].active)

C16_Witness ==
    \E t \in Threads :
       /\ Encoded(t)
       /\ call[t].periodic = 31 * 36000 + 1
       /\ call[t].pt = <<"1", "1", "0", "0", "0", "0", "0", "0">>
       /\ call[t].active = INT_MAX
       /\ call[t].at = <<"0", "1", "0", "1", "1", "1", "1", "1">>

----------------------------------------------------------------------------
(* Properties of the timeout, the lock and the handles in use *)

\* C17: every handle of the pool has the device's default timeout, whatever
\* set_timeout, get_at_handler, release_at_handler, open, close, create,
\* delete calls and the destructor were interleaved
C17_TimeoutEverywhere ==
    \A a \in DOMAIN ATH :
       a \in Range(_atHandlers) => ATH[a].timeout = _default_timeout

C17_Witness ==
    /\ _default_timeout = 2 * DEFAULT_AT_TIMEOUT
    /\ run.kind = "pool" /\ run.made = 1
    /\ Len(_atHandlers) >= 2
    /\ ATH[run.ret].timeout = 2 * DEFAULT_AT_TIMEOUT
    /\ ATH[_at].timeout = 2 * DEFAULT_AT_TIMEOUT

\* the positions at which a caller writes a command, reads a reply or is
\* about to unlock
InExchange(t) ==
    call[t].pc \in {"ir_at1", "ir_clear", "ir_at2", "ir_unlock",
                    "gs_cmd", "gs_read", "gs_stop", "gs_unlock",
                    "sp_cmd", "sp_unlock", "ps_cmd", "ps_unlock"}

\* every command of the trace lies between a lock and the next unlock
RECURSIVE Bracketed(_, _)
Bracketed(tr, locked) ==
    IF tr = <<>> THEN TRUE
    ELSE IF Head(tr) = "lock" THEN ~locked /\ Bracketed(Tail(tr), TRUE)
    ELSE IF Head(tr) = "unlock" THEN locked /\ Bracketed(Tail(tr), FALSE)
    ELSE locked /\ Bracketed(Tail(tr), locked)

\* C18: a caller of is_ready, get_sim_state, set_pin or set_power_save_mode
\* holds the lock of the handle wherever it writes a command or reads a
\* reply, holds it nowhere else and not when it has returned, so no two
\* callers are inside an exchange at once
C18_ExchangesUnderLock ==
    /\ \A t \in Threads :
          /\ InExchange(t) => at_lock = t
          /\ ~InExchange(t) => at_lock # t
          /\ call[t].pc # "idle" => Bracketed(call[t].tr, FALSE)
    /\ \A t, u \in Threads : (InExchange(t) /\ InExchange(u)) => t = u

C18_Witness ==
    \E t, u \in Threads :
       /\ call[t].pc = "sp_cmd"
       /\ call[u].pc = "ps_lock"
       /\ at_lock = t

\* C20: a set_pin call whose SIM-state query found the SIM waiting for its
\* PIN does not send AT+CPIN=<pin> to a SIM that is Ready by then: no other
\* caller's PIN-set exchange comes between the query and the PIN-set
C20_NoPinSetOnReadySim ==
    \A t \in Threads :
       (call[t].pc \in {"sp_unlock", "done"} /\ call[t].op = "set_pin"
           /\ call[t].state = "SimStatePinNeeded") =>
          call[t].simat # "ready"

\* the handles in use: the device's own, those of the subsystems in the
\* slots, those of the contexts of the list
InUse ==
    {_at} \cup {SUB[<<s, _slot[s]>>].at : s \in {x \in Slots : _slot[x] # Null}}
          \cup {CTX[_context_list[i]].at : i \in 1..Len(_context_list)}

\* C19: while the device is alive, the device's own handle, the handle of
\* every open subsystem and the handle of every context of the list are in
\* the pool with a count of at least 1
C19_HandlesInUseAreLive ==
    Alive =>
       /\ ~ub
       /\ \A s \in Slots : _slot[s] # Null => <<s, _slot[s]>> \in DOMAIN SUB
       /\ \A i \in 1..Len(_context_list) : _context_list[i] \in DOMAIN CTX
       /\ \A a \in InUse :
             /\ a \in DOMAIN ATH
             /\ a \in Range(_atHandlers)
             /\ ATH[a].ref >= 1

C19_Witness ==
    /\ Alive
    /\ run.kind = "pool" /\ run.gets = 1 /\ run.rels = 1 /\ run.freed = 0
    /\ run.fh # _fh
    /\ \E s \in Slots : _slot[s] # Null /\ SUB[<<s, _slot[s]>>].at = run.ret
    /\ ATH[run.ret].ref = 1

====
